---- MODULE Spec2Model ----
(***************************************************************************)
(* A model of src/rt.py, a recursive ray tracer (spheres and planes, one   *)
(* point light, Lambert + Blinn-Phong shading, shadows, reflection and     *)
(* refraction).                                                            *)
(*                                                                         *)
(* Numbers.  The program computes in IEEE doubles (numpy float64).  The    *)
(* model computes in exact rationals extended with +inf, -inf and NaN,     *)
(* with the IEEE rules for them (x/0, 0/0, inf-inf, 0*inf, comparisons     *)
(* with NaN are false, sqrt of a negative is NaN).  A number is a pair     *)
(* <<n, d>>: d > 0 is the rational n/d in lowest terms, <<1,0>> is +inf,   *)
(* <<-1,0>> is -inf and <<0,0>> is NaN.  A square root is taken exactly;   *)
(* the inputs of every specification are restricted to those on which all  *)
(* square roots the program takes are rational, so no rounding is          *)
(* modelled and none is needed.  Signed zeros are not distinguished.       *)
(*                                                                         *)
(* Lengths in the specification Spec are measured in units of              *)
(* NORM_BIAS_SCALE (1e-4): the program's geometry is invariant under a     *)
(* uniform scaling of scene, light, camera and bias.                       *)
(***************************************************************************)
EXTENDS Integers, Sequences, FiniteSets

VARIABLES
    scene,      \* rt.py:36  the list of objects (dicts), read by trace_ray
    scene0,     \* the scene as constructed (history variable)
    light,      \* rt.py:43  L
    camera,     \* rt.py:53  O
    stack,      \* the activation records of cast_ray, innermost last
    mode,       \* "call": the top record was just called; "ret": its callee
                \* just returned ret; "done": the primary call returned
    ret,        \* the value returned by the last return of cast_ray
    traces,     \* number of trace_ray invocations so far (history variable)
    last,       \* what the last step did (history variable)
    args,       \* the arguments of a pure function under test
    result,     \* its result
    screen,     \* the directions of the primary rays (rt.py:224-231)
    pixels,     \* number of primary rays cast so far (rt.py:224-235)
    phase       \* "in": args chosen; "out": the function was applied

vars == <<scene, scene0, light, camera, stack, mode, ret, traces, last,
          screen, pixels, args, result, phase>>

----------------------------------------------------------------------------
(* Evaluation.  TLC evaluates the argument of an operator each time the    *)
(* operator's body refers to it.  A value that is used more than once is   *)
(* therefore named first: The({e(x) : x \in {a}}) is e(a) with a evaluated *)
(* once, and reads "let x = a in e(x)".                                    *)

The(S) == CHOOSE x \in S : TRUE

----------------------------------------------------------------------------
(* Extended rational arithmetic.                                           *)

Abs(x) == The({IF n < 0 THEN -n ELSE n : n \in {x}})

Sign(x) == The({IF n < 0 THEN -1 ELSE IF n > 0 THEN 1 ELSE 0 : n \in {x}})

RECURSIVE Gcd(_, _)
Gcd(a, b) ==
    The({IF y = 0 THEN x ELSE Gcd(y, x % y) : x \in {a}, y \in {b}})

\* x / y, y # 0, by the common divisor g
Reduce(x, y, g) == <<(Sign(y) * x) \div g, Abs(y) \div g>>

\* the rational n/d, d # 0, in lowest terms with a positive denominator
Rat(n, d) ==
    The({The({Reduce(x, y, g) : g \in {Gcd(Abs(x), Abs(y))}}) :
            x \in {n}, y \in {d}})

NaN == <<0, 0>>
PInf == <<1, 0>>
NInf == <<-1, 0>>
Zero == <<0, 1>>
One == <<1, 1>>
Two == <<2, 1>>

IsNaN(a) == a = NaN
IsInf(a) == a \in {PInf, NInf}
IsFinite(a) == a[2] > 0

FNeg(a) == The({<<-x[1], x[2]>> : x \in {a}})

FAdd(a, b) ==
    The({IF IsNaN(x) \/ IsNaN(y) THEN NaN
         ELSE IF IsInf(x) THEN (IF IsInf(y) /\ y # x THEN NaN ELSE x)
         ELSE IF IsInf(y) THEN y
         ELSE Rat(x[1] * y[2] + y[1] * x[2], x[2] * y[2]) :
            x \in {a}, y \in {b}})

FSub(a, b) == FAdd(a, FNeg(b))

FMul(a, b) ==
    The({IF IsNaN(x) \/ IsNaN(y) THEN NaN
         ELSE IF IsInf(x) \/ IsInf(y)
              THEN (IF x[1] = 0 \/ y[1] = 0 THEN NaN
                    ELSE <<Sign(x[1]) * Sign(y[1]), 0>>)
         ELSE Rat(x[1] * y[1], x[2] * y[2]) :
            x \in {a}, y \in {b}})

FDiv(a, b) ==
    The({IF IsNaN(x) \/ IsNaN(y) THEN NaN
         ELSE IF IsInf(x)
              THEN (IF IsInf(y) THEN NaN
                    ELSE <<x[1] * (IF y[1] < 0 THEN -1 ELSE 1), 0>>)
         ELSE IF IsInf(y) THEN Zero
         ELSE IF y[1] = 0
              THEN (IF x[1] = 0 THEN NaN ELSE <<Sign(x[1]), 0>>)
         ELSE Rat(x[1] * y[2], x[2] * y[1]) :
            x \in {a}, y \in {b}})

FLt(a, b) ==
    \E x \in {a}, y \in {b} :
        /\ ~IsNaN(x)
        /\ ~IsNaN(y)
        /\ IF IsInf(x) /\ IsInf(y) THEN x[1] < y[1]
           ELSE x[1] * y[2] < y[1] * x[2]

FLe(a, b) ==
    \E x \in {a}, y \in {b} : ~IsNaN(x) /\ ~IsNaN(y) /\ ~FLt(y, x)

FGt(a, b) == FLt(b, a)

FGe(a, b) == FLe(b, a)

FAbs(a) == The({<<Abs(x[1]), x[2]>> : x \in {a}})

\* the largest r in lo..hi with r * r <= n
RECURSIVE RootIn(_, _, _)
RootIn(n, lo, hi) ==
    The({IF l = h THEN l
         ELSE IF ((l + h + 1) \div 2) * ((l + h + 1) \div 2) <= m
              THEN RootIn(m, (l + h + 1) \div 2, h)
              ELSE RootIn(m, l, (l + h + 1) \div 2 - 1) :
            m \in {n}, l \in {lo}, h \in {hi}})

\* the integer part of the square root of n, 0 <= n < 2^31
Root(n) == The({RootIn(m, 0, IF m < 46340 THEN m ELSE 46340) : m \in {n}})

IsSquareInt(n) == \E m \in {n} : m >= 0 /\ Root(m) * Root(m) = m

\* the exact root of a perfect square; undefined (an evaluation error)
\* on any other integer
ISqrt(n) == The({CHOOSE r \in {Root(m)} : r * r = m : m \in {n}})

\* a finite non-negative rational whose root is rational
IsSquare(a) ==
    \E x \in {a} : IsFinite(x) /\ IsSquareInt(x[1]) /\ IsSquareInt(x[2])

FSqrt(a) ==
    The({IF IsNaN(x) THEN NaN
         ELSE IF x = PInf THEN PInf
         ELSE IF x[1] < 0 THEN NaN
         ELSE <<ISqrt(x[1]), ISqrt(x[2])>> : x \in {a}})

\* Python's builtin min(a, b) and max(a, b): the first argument unless the
\* second is strictly smaller (larger); a NaN never replaces the first
PyMin(a, b) == The({IF FLt(y, x) THEN y ELSE x : x \in {a}, y \in {b}})

PyMax(a, b) == The({IF FGt(y, x) THEN y ELSE x : x \in {a}, y \in {b}})

\* int(x) of a finite float: truncation toward zero
PyInt(a) ==
    The({IF x[1] >= 0 THEN x[1] \div x[2] ELSE -((-x[1]) \div x[2]) :
            x \in {a}})

\* floor(x) of a finite float
Floor(a) == The({x[1] \div x[2] : x \in {a}})

----------------------------------------------------------------------------
(* 3-component vectors (numpy arrays of shape (3,)).                       *)

Vec(x, y, z) == <<Rat(x, 1), Rat(y, 1), Rat(z, 1)>>

VAdd(u, v) ==
    The({<<FAdd(x[1], y[1]), FAdd(x[2], y[2]), FAdd(x[3], y[3])>> :
            x \in {u}, y \in {v}})

VSub(u, v) ==
    The({<<FSub(x[1], y[1]), FSub(x[2], y[2]), FSub(x[3], y[3])>> :
            x \in {u}, y \in {v}})

VScale(u, k) ==
    The({<<FMul(x[1], y), FMul(x[2], y), FMul(x[3], y)>> :
            x \in {u}, y \in {k}})

VDivide(u, k) ==
    The({<<FDiv(x[1], y), FDiv(x[2], y), FDiv(x[3], y)>> :
            x \in {u}, y \in {k}})

Dot(u, v) ==
    The({FAdd(FAdd(FMul(x[1], y[1]), FMul(x[2], y[2])), FMul(x[3], y[3])) :
            x \in {u}, y \in {v}})

VNaN == <<NaN, NaN, NaN>>

VIsNaN(u) == \E x \in {u} : IsNaN(x[1]) \/ IsNaN(x[2]) \/ IsNaN(x[3])

VFinite(u) ==
    \E x \in {u} : IsFinite(x[1]) /\ IsFinite(x[2]) /\ IsFinite(x[3])

\* rt.py:62  x /= np.linalg.norm(x)
normalize(x) == The({VDivide(v, FSqrt(Dot(v, v))) : v \in {x}})

----------------------------------------------------------------------------
(* Program constants.                                                      *)

MAX_DEPTH_RAY_TRACING == 5

\* rt.py:30, the unit of length of Spec
NORM_BIAS_SCALE == One

\* rt.py:72  the parallel threshold of intersect_plane
PLANE_EPS == <<1, 1000000>>

\* rt.py:34, 35 (one value per colour channel)
color_plane0 == <<One, One, One>>

color_plane1 == <<Zero, Zero, Zero>>

----------------------------------------------------------------------------
(* Geometry primitives.                                                    *)

\* rt.py:75-77  with d of line 74
plane_ahead(d) == IF FLt(d, Zero) THEN PInf ELSE d

\* rt.py:72-77  with denom of line 71 and the numerator of line 74
plane_hit(denom, num) ==
    IF FLt(FAbs(denom), PLANE_EPS) THEN PInf
    ELSE The({plane_ahead(d) : d \in {FDiv(num, denom)}})

\* rt.py:67
intersect_plane(O, D, P, N) ==
    The({plane_hit(denom, num) :
            denom \in {Dot(D, N)}, num \in {Dot(VSub(P, O), N)}})

\* rt.py:86-87  b and c, with OS of line 85
sphere_bc(D, OS, R) ==
    <<FMul(Two, Dot(D, OS)), FSub(Dot(OS, OS), FMul(R, R))>>

\* rt.py:84-87  a, b, c of the quadratic, as <<a, b, c>>
sphere_abc(O, D, S, R) ==
    The({<<Dot(D, D), bc[1], bc[2]>> :
            bc \in {The({sphere_bc(D, OS, R) : OS \in {VSub(O, S)}})}})

\* rt.py:88  disc = b * b - 4 * a * c
quad_disc(a, b, c) == FSub(FMul(b, b), FMul(FMul(<<4, 1>>, a), c))

sphere_disc(O, D, S, R) ==
    The({quad_disc(abc[1], abc[2], abc[3]) :
            abc \in {sphere_abc(O, D, S, R)}})

\* rt.py:91  q
sphere_q(b, distSqrt) ==
    IF FLt(b, Zero)
    THEN FDiv(FSub(FNeg(b), distSqrt), Two)
    ELSE FDiv(FAdd(FNeg(b), distSqrt), Two)

\* a variant of lines 95-97: without the test of the near root
sphere_pick_near(t0, t1) == IF FGe(t1, Zero) THEN t0 ELSE PInf

\* rt.py:95-97  with t0, t1 after line 94
sphere_pick(t0, t1) ==
    IF FGe(t1, Zero)
    THEN (IF FLt(t0, Zero) THEN t1 ELSE t0)
    ELSE PInf

\* rt.py:94  t0, t1 = min(t0, t1), max(t0, t1)
sphere_order(u0, u1) ==
    The({sphere_pick(t0, t1) :
            t0 \in {PyMin(u0, u1)}, t1 \in {PyMax(u0, u1)}})

\* rt.py:92-93  t0 = q / a, t1 = c / q
sphere_t(a, c, q) ==
    The({sphere_order(u0, u1) : u0 \in {FDiv(q, a)}, u1 \in {FDiv(c, q)}})

\* rt.py:89-98  with disc of line 88
sphere_roots(a, b, c, disc) ==
    IF FGt(disc, Zero)
    THEN The({sphere_t(a, c, q) :
                 q \in {The({sphere_q(b, distSqrt) :
                                distSqrt \in {FSqrt(disc)}})}})
    ELSE PInf

\* rt.py:88-98  with a, b, c of lines 84-87
sphere_solve(a, b, c) ==
    The({sphere_roots(a, b, c, disc) : disc \in {quad_disc(a, b, c)}})

\* rt.py:80
intersect_sphere(O, D, S, R) ==
    The({sphere_solve(abc[1], abc[2], abc[3]) :
            abc \in {sphere_abc(O, D, S, R)}})

\* rt.py:100
intersect(O, D, obj) ==
    IF obj.type = "plane"
    THEN intersect_plane(O, D, obj.position, obj.normal)
    ELSE intersect_sphere(O, D, obj.position, obj.radius)

----------------------------------------------------------------------------
(* Scene objects: Python dicts, modelled as records with the same keys.    *)

\* Python's None
None == <<>>

\* rt.py:176-177  the plane's procedural colour
checkerboard(M) ==
    IF PyInt(FMul(M[1], Two)) % 2 = PyInt(FMul(M[3], Two)) % 2
    THEN color_plane0
    ELSE color_plane1

\* rt.py:163
add_sphere(position, radius, color) ==
    [type |-> "sphere", position |-> position, radius |-> radius,
     color |-> [kind |-> "array", value |-> color],
     reflection |-> <<1, 2>>, refraction |-> None]

\* rt.py:168
add_transparent_sphere(position, radius, color, refraction) ==
    [type |-> "sphere", position |-> position, radius |-> radius,
     color |-> [kind |-> "array", value |-> color],
     reflection |-> <<1, 2>>, refraction |-> refraction]

\* rt.py:173
add_plane(position, normal) ==
    [type |-> "plane", position |-> position, normal |-> normal,
     color |-> [kind |-> "function"],
     diffuse_c |-> <<3, 4>>, specular_c |-> <<1, 2>>,
     reflection |-> <<1, 4>>]

\* rt.py:107  the second component tells whether the returned array is the
\* object's own 'normal' array (line 112) or a fresh one (line 110)
get_normal(obj, M) ==
    IF obj.type = "sphere"
    THEN [N |-> normalize(VSub(M, obj.position)), shared |-> FALSE]
    ELSE [N |-> obj.normal, shared |-> TRUE]

\* rt.py:116
get_color(obj, M) ==
    IF obj.color.kind = "array" THEN obj.color.value ELSE checkerboard(M)

\* rt.py:123
get_refraction(obj) ==
    IF "refraction" \in DOMAIN obj THEN obj.refraction ELSE None

\* rt.py:219  obj.get('reflection', 1.0)
get_reflection(obj) ==
    IF "reflection" \in DOMAIN obj THEN obj.reflection ELSE One

----------------------------------------------------------------------------
(* trace_ray, rt.py:127.                                                   *)

\* a variant of line 134: <= for <
closer_or_equal(t_obj, i, t, obj_idx) ==
    IF FLe(t_obj, t)
    THEN [t |-> t_obj, obj_idx |-> i]
    ELSE [t |-> t, obj_idx |-> obj_idx]

\* rt.py:134-136  if t_obj < t: t, obj_idx = t_obj, i
closer(t_obj, i, t, obj_idx) ==
    IF FLt(t_obj, t)
    THEN [t |-> t_obj, obj_idx |-> i]
    ELSE [t |-> t, obj_idx |-> obj_idx]

\* rt.py:132-136  the scan for the first intersection, from object i on
RECURSIVE nearest(_, _, _, _)
nearest(rayO, rayD, i, best) ==
    IF i > Len(scene) THEN best
    ELSE The({nearest(rayO, rayD, i + 1, closer(t_obj, i, b.t, b.obj_idx)) :
                 t_obj \in {intersect(rayO, rayD, scene[i])}, b \in {best}})

\* rt.py:150-151  the list l of shadow-ray distances, objects k >= i
RECURSIVE shadow_list(_, _, _, _)
shadow_list(shO, toL, obj_idx, k) ==
    IF k > Len(scene) THEN <<>>
    ELSE IF k = obj_idx THEN shadow_list(shO, toL, obj_idx, k + 1)
    ELSE <<intersect(shO, toL, scene[k])>>
         \o shadow_list(shO, toL, obj_idx, k + 1)

\* Python's min(l) of a non-empty list
RECURSIVE list_min(_, _, _)
list_min(l, k, m) ==
    IF k > Len(l) THEN m
    ELSE The({list_min(l, k + 1, m2) : m2 \in {PyMin(m, l[k])}})

\* a variant of line 152: asking for at least two shadow distances
shadowed_among_two(l) == Len(l) > 1 /\ FLt(list_min(l, 2, l[1]), PInf)

\* rt.py:152
shadowed(l) == Len(l) > 0 /\ FLt(list_min(l, 2, l[1]), PInf)

\* rt.py:152-160  with the list l of lines 150-151
trace_shade(obj_idx, M, n, l, col_ray) ==
    IF shadowed(l)
    THEN [hit |-> FALSE, shadow |-> TRUE, obj_idx |-> obj_idx]
    ELSE [hit |-> TRUE, obj_idx |-> obj_idx, M |-> M,
          N |-> n.N, shared |-> n.shared, col_ray |-> col_ray]

\* rt.py:147-160  with the hit point M of line 143 and the normal n of
\* line 145.  toL of line 147 is used by the shadow rays only: its square
\* root is taken where a shadow ray is cast.
trace_lit(obj_idx, M, n, col_ray) ==
    The({trace_shade(obj_idx, M, n, l, col_ray) :
            l \in {The({shadow_list(shO, normalize(VSub(light, M)),
                                    obj_idx, 1) :
                      shO \in {VAdd(M, VScale(n.N, NORM_BIAS_SCALE))}})}})

\* rt.py:145-160  with the hit point M of line 143
trace_at(obj_idx, M, col_ray) ==
    The({trace_lit(obj_idx, M, n, col_ray) :
            n \in {get_normal(scene[obj_idx], M)}})

\* rt.py:138-160  with the result of the scan of lines 132-136
trace_first(rayO, rayD, col_ray, first) ==
    IF first.t = PInf THEN [hit |-> FALSE, shadow |-> FALSE, obj_idx |-> 0]
    ELSE The({trace_at(first.obj_idx, M, col_ray) :
                 M \in {VAdd(rayO, VScale(rayD, first.t))}})

\* rt.py:127-160.  The shading of lines 155-159 (ambient + Lambert +
\* Blinn-Phong with exponent 50) is a real number the model does not
\* compute: col_ray is supplied by the caller from ColRays.  A result with
\* hit = FALSE is Python's None; its other fields are history.
trace_ray(rayO, rayD, col_ray) ==
    The({trace_first(rayO, rayD, col_ray, first) :
            first \in {nearest(rayO, rayD, 1, [t |-> PInf, obj_idx |-> 0])}})

----------------------------------------------------------------------------
(* find_refracted, rt.py:181.  N is modified in place (line 183): the      *)
(* result carries the new value of the caller's array.                     *)

\* rt.py:183  N *= 1 if np.dot(rayD, N) <= 0 else -1
oriented(N, rayD) ==
    VScale(N, IF FLe(Dot(rayD, N), Zero) THEN One ELSE FNeg(One))

\* rt.py:186  1 - cosD ** 2
fall_sin2(N, rayD) ==
    The({FSub(One, FMul(cosD, cosD)) : cosD \in {Dot(rayD, N)}})

\* rt.py:188  1 - refraction_sin ** 2
refraction_cos2(refraction_sin) ==
    FSub(One, FMul(refraction_sin, refraction_sin))

\* rt.py:188-192  N + surf_dir * refraction_cot
refracted_vec(N, rayD, refraction_sin) ==
    VAdd(N, VScale(VAdd(VScale(N, Dot(rayD, N)), rayD),
                   FDiv(FSqrt(refraction_cos2(refraction_sin)),
                        refraction_sin)))

\* rt.py:186-193  with N after line 183 and rayO_refracted of line 184
refract_dir(N, rayD, refraction) ==
    The({normalize(refracted_vec(N, rayD, refraction_sin)) :
            refraction_sin \in
                {FMul(FSqrt(fall_sin2(N, rayD)), refraction)}})

\* rt.py:184-193  with N after line 183
refract_at(N, M, rayD, refraction) ==
    [N |-> N,
     rayO |-> VSub(M, VScale(N, NORM_BIAS_SCALE)),
     rayD |-> refract_dir(N, rayD, refraction)]

\* rt.py:181
find_refracted(N, M, rayO, rayD, refraction) ==
    The({refract_at(N2, M, rayD, refraction) : N2 \in {oriented(N, rayD)}})

----------------------------------------------------------------------------
(* The inputs of Spec: scenes on the x axis.  Sphere centres, plane        *)
(* points, the camera and the primary rays lie on the x axis, so that      *)
(* every hit point and every normal is rational; the light may lie off     *)
(* the axis.                                                               *)

MaxObjects == 2

MaxPixels == 2

blue == <<Zero, Zero, One>>

ObjectPool ==
    { add_sphere(Vec(7, 0, 0), Rat(2, 1), blue),
      add_sphere(Vec(-7, 0, 0), Rat(2, 1), blue),
      add_transparent_sphere(Vec(7, 0, 0), Rat(2, 1), blue, <<4, 5>>),
      add_transparent_sphere(Vec(-7, 0, 0), Rat(2, 1), blue, <<4, 5>>),
      add_transparent_sphere(Vec(0, 0, 0), Rat(5, 1), blue, <<5, 4>>),
      add_plane(Vec(9, 0, 0), Vec(-1, 0, 0)),
      add_plane(Vec(-5, 0, 0), Vec(-1, 0, 0)),
      add_plane(Vec(0, -3, 0), Vec(0, 1, 0)),
      \* a plane dict that also carries a 'refraction' key
      [type |-> "plane", position |-> Vec(5, 0, 0), normal |-> Vec(-1, 0, 0),
       color |-> [kind |-> "function"],
       diffuse_c |-> <<3, 4>>, specular_c |-> <<1, 2>>,
       reflection |-> <<1, 4>>, refraction |-> <<4, 5>>] }

RECURSIVE SeqsOfLen(_)
SeqsOfLen(n) ==
    IF n = 0 THEN {<<>>}
    ELSE {Append(s, o) : s \in SeqsOfLen(n - 1), o \in ObjectPool}

NoRepeat(s) == \A i, j \in 1..Len(s) : i # j => s[i] # s[j]

Scenes ==
    {s \in UNION {SeqsOfLen(n) : n \in 1..MaxObjects} : NoRepeat(s)}

Lights == {Vec(0, 12, 0), Vec(20, 0, 0)}

Cameras == {Vec(0, 0, 0), Vec(-12, 0, 0)}

PrimaryDirs == {Vec(1, 0, 0), Vec(-1, 0, 0)}

\* the shading results trace_ray may return (one colour channel)
ColRays == {<<1, 20>>, <<1, 1>>}

\* the points of an object a ray along the x axis can hit
Faces(obj) ==
    IF obj.type = "sphere"
    THEN {VAdd(obj.position, <<obj.radius, Zero, Zero>>),
          VSub(obj.position, <<obj.radius, Zero, Zero>>)}
    ELSE {obj.position}

\* every square root trace_ray takes on scene sc with light Lp is rational
SceneExact(sc, Lp) ==
    \A i \in 1..Len(sc) : \A M \in Faces(sc[i]) :
        \E d2 \in {Dot(VSub(Lp, M), VSub(Lp, M))} :
            /\ IsSquare(d2)
            /\ d2 # Zero
            /\ \A N \in PrimaryDirs : \A k \in 1..Len(sc) :
                 (k # i /\ sc[k].type = "sphere") =>
                    \E disc \in {sphere_disc(
                                    VAdd(M, VScale(N, NORM_BIAS_SCALE)),
                                    normalize(VSub(Lp, M)),
                                    sc[k].position, sc[k].radius)} :
                        FLe(disc, Zero) \/ IsSquare(disc)

AxisSetups ==
    {setup \in [scene : Scenes, light : Lights, camera : Cameras,
                screen : {PrimaryDirs}] :
        SceneExact(setup.scene, setup.light)}

\* One plane y = 0 seen at an angle: the primary ray (4/5, -3/5, 0) from
\* (0, 3, 0) meets it at (4, 0, 0) with sin(incidence) = 4/5.  With the
\* index 5/4 the transmitted sine is exactly 1, with 5/3 it exceeds 1.
ObliquePlanes ==
    { add_plane(Vec(0, 0, 0), Vec(0, 1, 0)),
      [type |-> "plane", position |-> Vec(0, 0, 0), normal |-> Vec(0, 1, 0),
       color |-> [kind |-> "function"],
       diffuse_c |-> <<3, 4>>, specular_c |-> <<1, 2>>,
       reflection |-> <<1, 4>>, refraction |-> <<5, 4>>],
      [type |-> "plane", position |-> Vec(0, 0, 0), normal |-> Vec(0, 1, 0),
       color |-> [kind |-> "function"],
       diffuse_c |-> <<3, 4>>, specular_c |-> <<1, 2>>,
       reflection |-> <<1, 4>>, refraction |-> <<5, 3>>] }

ObliqueSetups ==
    {[scene |-> <<p>>, light |-> Vec(4, 12, 0), camera |-> Vec(0, 3, 0),
      screen |-> {<<<<4, 5>>, <<-3, 5>>, Zero>>}] : p \in ObliquePlanes}

----------------------------------------------------------------------------
(* cast_ray, rt.py:196, as a machine over its activation records.          *)

\* a variant of line 202: the limit off by one
depth_exceeded_late(depth) == depth > MAX_DEPTH_RAY_TRACING + 1

\* rt.py:202
depth_exceeded(depth) == depth > MAX_DEPTH_RAY_TRACING

\* rt.py:211  refraction is not None
takes_refraction(refraction) == refraction # None

\* a variant of lines 215 and 220: depth passed on unchanged
same_depth(depth) == depth

\* rt.py:215, 220  depth + 1
next_depth(depth) == depth + 1

\* rt.py:209  the reflected ray
reflect(M, N, rayD) ==
    [rayO |-> VAdd(M, VScale(N, NORM_BIAS_SCALE)),
     rayD |-> normalize(VSub(rayD,
                  VScale(N, FMul(Two, Dot(rayD, N)))))]

\* a variant of line 219: without the multiplication
keep_reflection(reflection, obj) == reflection

\* rt.py:219  reflection *= obj.get('reflection', 1.0)
update_reflection(reflection, obj) == FMul(reflection, get_reflection(obj))

\* rt.py:221  return ray_sum + reflection * col_ray
final_sum(ray_sum, reflection, col_ray) ==
    FAdd(ray_sum, FMul(reflection, col_ray))

\* rt.py:196-201  a fresh activation of cast_ray(rayO, rayD, reflection, depth)
Activation(rayO, rayD, reflection, depth) ==
    [rayO |-> rayO, rayD |-> rayD, reflection |-> reflection,
     depth |-> depth, ray_sum |-> Zero, pc |-> "start",
     obj_idx |-> 0, col_ray |-> Zero,
     \* history: the weight the call was given, what its two recursive
     \* calls returned, how many times it called trace_ray and cast_ray
     w_in |-> reflection, R_refr |-> Zero, R_refl |-> Zero,
     n_trace |-> 0, n_calls |-> 0]

top == stack[Len(stack)]

\* the record on top of the stack replaced by f
WithTop(f) == [stack EXCEPT ![Len(stack)] = f]

\* a return of cast_ray with value v
Return(v) ==
    /\ stack' = SubSeq(stack, 1, Len(stack) - 1)
    /\ ret' = v
    /\ mode' = IF Len(stack) = 1 THEN "done" ELSE "ret"

\* rt.py:202-203
CastBase ==
    /\ mode = "call"
    /\ depth_exceeded(top.depth)
    /\ Return(top.ray_sum)
    /\ last' = [op |-> "base", depth |-> top.depth]
    /\ UNCHANGED <<scene, scene0, light, camera, traces, screen, pixels,
                   args, result, phase>>

\* rt.py:204-206
CastMiss ==
    /\ mode = "call"
    /\ ~depth_exceeded(top.depth)
    /\ \E traced \in {trace_ray(top.rayO, top.rayD, Zero)} :
           /\ ~traced.hit
           /\ last' = [op |-> "miss", depth |-> top.depth,
                       shadow |-> traced.shadow, obj_idx |-> traced.obj_idx]
    /\ traces' = traces + 1
    /\ Return(top.ray_sum)
    /\ UNCHANGED <<scene, scene0, light, camera, screen, pixels,
                   args, result, phase>>

\* rt.py:204-220 on a hit of an object without refraction index
CastHitOpaque ==
    /\ mode = "call"
    /\ ~depth_exceeded(top.depth)
    /\ \E col_ray \in ColRays :
         \E traced \in {trace_ray(top.rayO, top.rayD, col_ray)} :
             /\ traced.hit
             /\ ~takes_refraction(get_refraction(scene[traced.obj_idx]))
             /\ \E r \in {reflect(traced.M, traced.N, top.rayD)},
                   reflection \in {update_reflection(top.reflection,
                                       scene[traced.obj_idx])} :
                    /\ stack' = Append(
                          WithTop([top EXCEPT
                              !.rayO = r.rayO, !.rayD = r.rayD,
                              !.reflection = reflection,
                              !.obj_idx = traced.obj_idx,
                              !.col_ray = traced.col_ray,
                              !.pc = "reflected",
                              !.n_trace = 1, !.n_calls = 1]),
                          Activation(r.rayO, r.rayD, reflection,
                                     next_depth(top.depth)))
                    /\ last' = [op |-> "hit", depth |-> top.depth,
                                inO |-> top.rayO, inD |-> top.rayD,
                                obj_idx |-> traced.obj_idx,
                                M |-> traced.M, N |-> traced.N,
                                refracts |-> FALSE]
    /\ traces' = traces + 1
    /\ mode' = "call"
    /\ UNCHANGED <<scene, scene0, light, camera, ret, screen, pixels,
                   args, result, phase>>

\* rt.py:204-215 on a hit of an object with a refraction index
CastHitRefract ==
    /\ mode = "call"
    /\ ~depth_exceeded(top.depth)
    /\ \E col_ray \in ColRays :
         \E traced \in {trace_ray(top.rayO, top.rayD, col_ray)} :
             /\ traced.hit
             /\ takes_refraction(get_refraction(scene[traced.obj_idx]))
             /\ \E r \in {reflect(traced.M, traced.N, top.rayD)} :
                 \E fr \in {find_refracted(traced.N, traced.M,
                                 r.rayO, r.rayD,
                                 get_refraction(scene[traced.obj_idx]))} :
                    /\ stack' = Append(
                          WithTop([top EXCEPT
                              !.rayO = r.rayO, !.rayD = r.rayD,
                              !.obj_idx = traced.obj_idx,
                              !.col_ray = traced.col_ray,
                              !.pc = "refracted",
                              !.n_trace = 1, !.n_calls = 1]),
                          Activation(fr.rayO, fr.rayD, top.reflection,
                                     next_depth(top.depth)))
                    \* line 183 writes through N: a plane's N is its own
                    \* 'normal' array
                    /\ scene' = IF traced.shared
                                THEN [scene EXCEPT
                                        ![traced.obj_idx].normal = fr.N]
                                ELSE scene
                    /\ last' = [op |-> "hit", depth |-> top.depth,
                                inO |-> top.rayO, inD |-> top.rayD,
                                obj_idx |-> traced.obj_idx,
                                M |-> traced.M, N |-> traced.N,
                                refracts |-> TRUE,
                                refrO |-> fr.rayO, refrD |-> fr.rayD]
    /\ traces' = traces + 1
    /\ mode' = "call"
    /\ UNCHANGED <<scene0, light, camera, ret, screen, pixels,
                   args, result, phase>>

\* rt.py:215, 219-220  the refracted call returned
AfterRefracted ==
    /\ mode = "ret"
    /\ top.pc = "refracted"
    /\ \E reflection \in {update_reflection(top.reflection,
                                              scene[top.obj_idx])} :
           stack' = Append(
               WithTop([top EXCEPT
                   !.ray_sum = FAdd(top.ray_sum, ret),
                   !.reflection = reflection,
                   !.R_refr = ret,
                   !.pc = "reflected",
                   !.n_calls = 2]),
               Activation(top.rayO, top.rayD, reflection, next_depth(top.depth)))
    /\ mode' = "call"
    /\ last' = [op |-> "resume", depth |-> top.depth]
    /\ UNCHANGED <<scene, scene0, light, camera, ret, traces, screen, pixels,
                   args, result, phase>>

\* rt.py:220-221  the reflected call returned
AfterReflected ==
    /\ mode = "ret"
    /\ top.pc = "reflected"
    /\ Return(final_sum(FAdd(top.ray_sum, ret), top.reflection, top.col_ray))
    /\ last' = [op |-> "return", depth |-> top.depth,
                w_in |-> top.w_in, obj_idx |-> top.obj_idx,
                reflection |-> top.reflection, col_ray |-> top.col_ray,
                R_refr |-> top.R_refr, R_refl |-> ret,
                n_trace |-> top.n_trace, n_calls |-> top.n_calls]
    /\ UNCHANGED <<scene, scene0, light, camera, traces, screen, pixels,
                   args, result, phase>>

\* rt.py:224-235  the next pixel's primary ray
NextPixel ==
    /\ mode = "done"
    /\ pixels < MaxPixels
    /\ \E D \in screen : stack' = <<Activation(camera, D, One, 0)>>
    /\ mode' = "call"
    /\ ret' = Zero
    /\ traces' = 0
    /\ pixels' = pixels + 1
    /\ last' = [op |-> "pixel"]
    /\ UNCHANGED <<scene, scene0, light, camera, screen,
                   args, result, phase>>

Init ==
    /\ \E setup \in AxisSetups \cup ObliqueSetups :
         /\ scene = setup.scene
         /\ light = setup.light
         /\ camera = setup.camera
         /\ screen = setup.screen
    /\ scene0 = scene
    /\ \E D \in screen : stack = <<Activation(camera, D, One, 0)>>
    /\ mode = "call"
    /\ ret = Zero
    /\ traces = 0
    /\ pixels = 1
    /\ last = [op |-> "pixel"]
    /\ args = None
    /\ result = None
    /\ phase = "off"

Next ==
    \/ CastBase
    \/ CastMiss
    \/ CastHitOpaque
    \/ CastHitRefract
    \/ AfterRefracted
    \/ AfterReflected
    \/ NextPixel

Spec == Init /\ [][Next]_vars

\* the program is one thread that runs every call to its end
FairSpec == Spec /\ WF_vars(Next)

----------------------------------------------------------------------------
(* Specifications of single functions: the arguments are drawn in the      *)
(* initial state and one step applies the function.                        *)

\* the ray caster at rest
Idle ==
    /\ scene = <<>>
    /\ scene0 = <<>>
    /\ light = Vec(0, 0, 0)
    /\ camera = Vec(0, 0, 0)
    /\ stack = <<>>
    /\ mode = "off"
    /\ ret = Zero
    /\ traces = 0
    /\ last = [op |-> "none"]
    /\ screen = {}
    /\ pixels = 0

IdleUnchanged ==
    UNCHANGED <<scene, scene0, light, camera, stack, mode, ret, traces,
                last, screen, pixels, args>>

\* --- intersect_sphere ---

SphereRange == 3

SphereDirs ==
    { Vec(1, 0, 0), Vec(-1, 0, 0), Vec(0, 1, 0), Vec(0, 0, -1),
      <<<<3, 5>>, <<4, 5>>, Zero>>, <<<<-4, 5>>, Zero, <<3, 5>>>>,
      \* not of unit length: line 84 computes a from D
      Vec(2, 0, 0), Vec(1, 1, 0) }

SphereArgs ==
    {x \in [O : {Vec(i, j, 0) : i, j \in -SphereRange..SphereRange},
            D : SphereDirs,
            S : {Vec(0, 0, 0), Vec(1, 0, 0)},
            R : {Rat(k, 1) : k \in 1..SphereRange} \cup {<<5, 2>>}] :
        \E disc \in {sphere_disc(x.O, x.D, x.S, x.R)} :
            FLe(disc, Zero) \/ IsSquare(disc)}

SphereInit == Idle /\ args \in SphereArgs /\ result = None /\ phase = "in"

ApplySphere ==
    /\ phase = "in"
    /\ result' = intersect_sphere(args.O, args.D, args.S, args.R)
    /\ phase' = "out"
    /\ IdleUnchanged

SpecSphere == SphereInit /\ [][ApplySphere]_vars

\* --- get_color ---

ColorRange == 6

ColorArgs ==
    [obj : {add_plane(<<Zero, <<-1, 2>>, Zero>>, Vec(0, 1, 0)),
            add_sphere(<<<<3, 4>>, <<1, 10>>, One>>, <<3, 5>>, blue)},
     M : {<<Rat(i, 4), <<-1, 2>>, Rat(k, 4)>> :
            i, k \in -ColorRange..ColorRange}]

ColorInit == Idle /\ args \in ColorArgs /\ result = None /\ phase = "in"

ApplyColor ==
    /\ phase = "in"
    /\ result' = get_color(args.obj, args.M)
    /\ phase' = "out"
    /\ IdleUnchanged

SpecColor == ColorInit /\ [][ApplyColor]_vars

\* --- the refraction branch of cast_ray, rt.py:209-215 ---

RefractRange == 1

RefractDirs ==
    LET legs == {<<3, 4>>, <<4, 3>>}
        signs == {-1, 1}
    IN  {<<Rat(a * l[1], 5), Rat(b * l[2], 5), Zero>> :
            a \in signs, b \in signs, l \in legs}
        \cup {Vec(1, 0, 0), Vec(-1, 0, 0), Vec(0, 1, 0), Vec(0, -1, 0)}

RefractionIndices == {<<4, 5>>, <<3, 5>>, One, <<5, 4>>, <<5, 3>>, Two}

\* the square roots of lines 188 and 192 are rational
ExactDir(N, rayD, refraction_sin) ==
    \/ FLt(refraction_cos2(refraction_sin), Zero)
    \/ /\ IsSquare(refraction_cos2(refraction_sin))
       /\ \E v \in {refracted_vec(N, rayD, refraction_sin)} :
             ~IsFinite(Dot(v, v)) \/ IsSquare(Dot(v, v))

\* so is the square root of line 186
ExactAt(N, rayD, refraction) ==
    /\ IsSquare(fall_sin2(N, rayD))
    /\ ExactDir(N, rayD, FMul(FSqrt(fall_sin2(N, rayD)), refraction))

\* every square root lines 209-213 take on these arguments is rational
RefractExact(x) ==
    \E r \in {reflect(x.M, x.N, x.rayD)} :
        ExactAt(oriented(x.N, r.rayD), r.rayD, x.refraction)

RefractArgs ==
    {x \in [N : {Vec(0, 1, 0), Vec(0, -1, 0), Vec(1, 0, 0)},
            M : {Vec(i, 0, 0) : i \in 0..RefractRange},
            rayD : RefractDirs,
            refraction : RefractionIndices] : RefractExact(x)}

RefractInit == Idle /\ args \in RefractArgs /\ result = None /\ phase = "in"

ApplyRefract ==
    /\ phase = "in"
    /\ \E r \in {reflect(args.M, args.N, args.rayD)} :
         \E fr \in {find_refracted(args.N, args.M, r.rayO, r.rayD,
                                   args.refraction)} :
            result' = [N |-> fr.N, rayO |-> fr.rayO, rayD |-> fr.rayD,
                       recursed |-> takes_refraction(args.refraction)]
    /\ phase' = "out"
    /\ IdleUnchanged

SpecRefract == RefractInit /\ [][ApplyRefract]_vars

----------------------------------------------------------------------------
(* Properties.                                                             *)

\* the distance of object j along the ray
Distance(rayO, rayD, j) == intersect(rayO, rayD, scene[j])

\* no object lies ahead on the ray
NothingAhead(rayO, rayD) ==
    \A j \in 1..Len(scene) : ~FLt(Distance(rayO, rayD, j), PInf)

\* object i is at the least distance, and is the first such in scene order
EarliestNearest(rayO, rayD, i) ==
    /\ i \in 1..Len(scene)
    /\ FLt(Distance(rayO, rayD, i), PInf)
    /\ \A j \in 1..Len(scene) :
          ~FLt(Distance(rayO, rayD, j), Distance(rayO, rayD, i))
    /\ \A j \in 1..(i - 1) :
          Distance(rayO, rayD, j) # Distance(rayO, rayD, i)

\* the shadow ray from the point M of object i meets another object
ShadowRayBlocked(i, M) ==
    \E N \in {get_normal(scene[i], M).N} :
        \E k \in (1..Len(scene)) \ {i} :
            FLt(intersect(VAdd(M, VScale(N, NORM_BIAS_SCALE)),
                          normalize(VSub(light, M)), scene[k]), PInf)

\* the point the ray strikes is occluded from the light
Occluded(rayO, rayD) ==
    \E i \in 1..Len(scene) :
        /\ EarliestNearest(rayO, rayD, i)
        /\ ShadowRayBlocked(i, VAdd(rayO, VScale(rayD,
                                        Distance(rayO, rayD, i))))

\* the weight after line 219 of the call that just returned
UpdatedWeight == FMul(last.w_in, get_reflection(scene[last.obj_idx]))

\* C1 (as the code computes it): every return of cast_ray after a hit
\* yields R_refr + R_refl + w * localColor, where w is the weight the call
\* was given times the struck object's reflectivity, R_refr is what the
\* refracted call returned (zero if there was none) and R_refl is what the
\* reflected call returned, which was itself given the weight w and is not
\* weighted a second time.
C1_ReturnSum ==
    last.op = "return" =>
        ret = FAdd(FAdd(last.R_refr, last.R_refl),
                   FMul(UpdatedWeight, last.col_ray))

\* C1 as stated: the return is R_refr + w * R_refl + w * localColor.
C1_AsStated ==
    last.op = "return" =>
        ret = FAdd(FAdd(last.R_refr, FMul(UpdatedWeight, last.R_refl)),
                   FMul(UpdatedWeight, last.col_ray))

\* a hit at a weight below one, on an object with a refraction index,
\* whose reflected call returned light
C1_Witness ==
    /\ last.op = "return"
    /\ last.n_calls = 2
    /\ last.R_refl # Zero
    /\ last.w_in # One
    /\ UpdatedWeight # One

\* C2: a call of cast_ray with depth > MAX_DEPTH_RAY_TRACING returns zero
\* radiance, whatever its ray and weight, without calling trace_ray and
\* without starting another call.
C2_DepthLimit ==
    [][(mode = "call" /\ stack[Len(stack)].depth > MAX_DEPTH_RAY_TRACING)
          => /\ ret' = Zero
             /\ traces' = traces
             /\ stack' = SubSeq(stack, 1, Len(stack) - 1)
             /\ mode' # "call"]_vars

\* a call at depth MAX_DEPTH_RAY_TRACING + 1 has returned
C2_Witness ==
    /\ last.op = "base"
    /\ last.depth = MAX_DEPTH_RAY_TRACING + 1
    /\ ret = Zero
    /\ Len(stack) = MAX_DEPTH_RAY_TRACING + 1

\* C3: when the shadow ray from the struck point meets any other object at
\* a finite distance, trace_ray reports no hit and cast_ray returns zero
\* radiance without starting a reflected or refracted call.
C3_ShadowLaw ==
    [][(/\ mode = "call"
        /\ stack[Len(stack)].depth <= MAX_DEPTH_RAY_TRACING
        /\ Occluded(stack[Len(stack)].rayO, stack[Len(stack)].rayD))
          => /\ last'.op = "miss"
             /\ ret' = Zero
             /\ stack' = SubSeq(stack, 1, Len(stack) - 1)]_vars

\* a ray struck an object at a point in shadow and its call returned zero
C3_Witness ==
    /\ last.op = "miss"
    /\ last.shadow
    /\ last.obj_idx > 0
    /\ ret = Zero

\* C4 as stated: on the checkerboard plane get_color returns color_plane0
\* exactly when floor(2 * M.x) and floor(2 * M.z) have the same parity, for
\* negative coordinates as well, and color_plane1 otherwise.
C4_FloorParity ==
    (phase = "out" /\ args.obj.type = "plane") =>
        result = IF Floor(FMul(Two, args.M[1])) % 2
                      = Floor(FMul(Two, args.M[3])) % 2
                 THEN color_plane0
                 ELSE color_plane1

\* sin(incidence) * refraction >= 1 for the direction rayD and the normal N
TotalInternalReflection(N, rayD, refraction) ==
    FGe(FMul(fall_sin2(N, rayD), FMul(refraction, refraction)), One)

\* C5 as stated: under total internal reflection the refraction path yields
\* no NaN direction and the refracted call is not made.
C5_TirGuarded ==
    (/\ phase = "out"
     /\ TotalInternalReflection(args.N, args.rayD, args.refraction))
        => /\ ~VIsNaN(result.rayD)
           /\ ~result.recursed

\* the two roots of a * t^2 + b * t + c, disc > 0
NearRoot(a, b, disc) == FDiv(FSub(FNeg(b), FSqrt(disc)), FMul(Two, a))

FarRoot(a, b, disc) == FDiv(FAdd(FNeg(b), FSqrt(disc)), FMul(Two, a))

\* the smallest non-negative root, +inf if there is none
SmallestRoot(a, b, disc) ==
    IF FLe(disc, Zero) THEN PInf
    ELSE IF FGe(NearRoot(a, b, disc), Zero) THEN NearRoot(a, b, disc)
    ELSE IF FGe(FarRoot(a, b, disc), Zero) THEN FarRoot(a, b, disc)
    ELSE PInf

\* C6: intersect_sphere returns the smallest non-negative root of the
\* ray/sphere quadratic (the near root if it is non-negative, else the far
\* root if that is non-negative), +inf when the discriminant is <= 0 or
\* both roots are negative, and never a negative value.
C6_SmallestRoot ==
    phase = "out" =>
        \E abc \in {sphere_abc(args.O, args.D, args.S, args.R)} :
            /\ result = SmallestRoot(abc[1], abc[2],
                                     quad_disc(abc[1], abc[2], abc[3]))
            /\ ~FLt(result, Zero)

\* the origin is strictly inside the sphere and the exit root was returned
C6_Witness ==
    /\ phase = "out"
    /\ FLt(sphere_abc(args.O, args.D, args.S, args.R)[3], Zero)
    /\ IsFinite(result)
    /\ FGt(result, Zero)

\* C7: the object trace_ray strikes is at the least intersection distance
\* of the scene, the earliest in scene order among those at that distance,
\* and when every distance is +inf trace_ray reports no hit before any
\* shadow test or shading.
C7_Nearest ==
    [][(mode = "call"
        /\ stack[Len(stack)].depth <= MAX_DEPTH_RAY_TRACING)
          => IF NothingAhead(stack[Len(stack)].rayO, stack[Len(stack)].rayD)
             THEN last'.op = "miss" /\ ~last'.shadow
             ELSE /\ last'.op \in {"hit", "miss"}
                  /\ last'.op = "miss" => last'.shadow
                  /\ EarliestNearest(stack[Len(stack)].rayO,
                                     stack[Len(stack)].rayD,
                                     last'.obj_idx)]_vars

\* a ray struck the first of two objects at the same distance
C7_Witness ==
    /\ last.op = "hit"
    /\ \E j \in 1..Len(scene) :
          /\ j > last.obj_idx
          /\ Distance(last.inO, last.inD, j)
                = Distance(last.inO, last.inD, last.obj_idx)

\* C8 as stated: whatever calls were made, every attribute of every scene
\* object has the value it had when the scene was constructed.
C8_SceneUnchanged == scene = scene0

\* the calls in progress are nested one level deeper each, none deeper than
\* MAX_DEPTH_RAY_TRACING + 1, each has called trace_ray at most once and
\* cast_ray at most twice, and a primary ray has caused at most 2^6 - 1
\* calls of trace_ray
C9_Bounds ==
    /\ \A i \in 1..Len(stack) :
          /\ stack[i].depth = i - 1
          /\ stack[i].depth <= MAX_DEPTH_RAY_TRACING + 1
          /\ stack[i].n_trace <= 1
          /\ stack[i].n_calls <= 2
          /\ stack[i].n_calls > 0 => stack[i].n_trace = 1
          /\ i < Len(stack) =>
                /\ stack[i].depth <= MAX_DEPTH_RAY_TRACING
                /\ stack[i].n_calls >= 1
    /\ traces <= 2 ^ (MAX_DEPTH_RAY_TRACING + 1) - 1
    /\ last.op = "return" => last.n_trace = 1 /\ last.n_calls \in {1, 2}

\* C9: every call of cast_ray at depth 0 returns; meanwhile every call at
\* depth <= MAX_DEPTH_RAY_TRACING calls trace_ray once and cast_ray at most
\* twice, each time with depth + 1, no call is deeper than
\* MAX_DEPTH_RAY_TRACING + 1, and at most 63 calls of trace_ray happen per
\* primary ray.
C9_Terminates == []C9_Bounds /\ (mode = "call" ~> mode = "done")

\* a primary ray has returned after a chain of calls down to the limit
C9_Witness ==
    /\ mode = "done"
    /\ last.op = "return"
    /\ traces > MAX_DEPTH_RAY_TRACING

\* C10 as stated: the refracted ray starts on the side of the surface
\* opposite the one the incoming ray D_in arrived from:
\* (origin - M) . D_in > 0 whenever D_in . N # 0.
C10_FromIncoming ==
    (/\ last.op = "hit"
     /\ last.refracts
     /\ Dot(last.inD, last.N) # Zero)
        => FGt(Dot(VSub(last.refrO, last.M), last.inD), Zero)

====
